---- MODULE Spec2Model ----
(***************************************************************************)
(* A model of the LLM orchestration demos of Agentic_AI_Fundamentals:      *)
(*   - pattern_evaluator_optimizer  (src/week2/agenticpatterns.py)         *)
(*   - run_native_agent             (src/Week1/smart_investor_nativetools) *)
(*   - run_agent                    (src/smart_investor_local.py)          *)
(*   - route_query, pattern_routing (src/Week1/router_chain.py, week2)     *)
(* The LLM Gateway is the environment: every response it can give is a     *)
(* nondeterministic choice from a bounded set, and a call may also raise.  *)
(* Texts are TLA+ strings, so formatting, case conversion and substring    *)
(* tests are computed on the characters as the Python code computes them.  *)
(***************************************************************************)
EXTENDS Integers, Sequences, FiniteSets, TLC

VARIABLES
    \* ---- pattern_evaluator_optimizer
    eo_pc,          \* position: "test" | "gen" | "eval" | "done" | "raised"
    status,         \* local `status`
    attempt,        \* local `attempt`
    context,        \* local `context`
    draft,          \* local `draft` (NoneStr before the first generation)
    feedback,       \* local `feedback`
    eo_ret,         \* the value the function returned ("<running>" before)
    gen_contexts,   \* history: the user text of every generator call
    eval_log,       \* history: every evaluator response, with the draft judged
    \* ---- run_agent and run_native_agent (one of them runs per behaviour)
    agent,          \* which loop runs: "run_agent" | "run_native_agent"
    ag_pc,          \* "call" | "returned" | "exhausted" | "raised"
    turn,           \* the loop variable `turn` of the turn about to start
    messages,       \* the transcript `messages`
    ag_error,       \* the exception that left the loop ("none" if none did)
    ag_ret,         \* the value run_agent returned ("<running>" before)
    next_id,        \* the Gateway's next tool call id
    sent,           \* history: how many times the transcript went to the Gateway
    emitted,        \* history: every tool call the Gateway emitted
    tool_runs,      \* history: every tool request the loop acted on
    \* ---- route_query and pattern_routing (one of them runs per behaviour)
    router,         \* which router runs: "route_query" | "pattern_routing"
    rt_pc,          \* "classify" | "done" | "raised"
    rt_raw,         \* the classifier's response text for the current query
    route,          \* local `route` / `category`: the normalised response
    rt_calls,       \* history: per query handled, the handlers called for it
    rt_ret,         \* what route_query returned ("<running>" before)
    \* ---- pattern_parallelization and run_consensus (one runs per behaviour)
    scatter,        \* which one runs: "pattern_parallelization" | "run_consensus"
    sg_pc,          \* "gather" | "synth" | "done" | "raised"
    branch,         \* per launched branch: its state and the LLM's text
    completed,      \* history: the branches in the order they completed
    combined,       \* the user text of the synthesis call (NoneStr before it)
    \* ---- the PII redaction filters (one is applied per behaviour)
    guard,          \* which filter: a pii_guardrail version or "guardrail_pii"
    g_text,         \* the text first handed to the filter
    g_out,          \* the current text (the filter's latest output)
    g_first,        \* history: the output of the first application
    g_n,            \* how many times the filter was applied
    \* ---- Production-Ready.py: one Tracer, CACHE_STORE, secure_agent_executor
    spans,          \* tracer.spans
    trace_log,      \* the lines of agent_traces.jsonl, as the spans written
    now,            \* what datetime.now() reads
    CACHE_STORE,    \* the dict, as a function on the prompts it holds
    api_key,        \* whether client.api_key is set (fixed when the module loads)
    ended,          \* history: how many end_span calls have completed
    written,        \* history: per prompt, the response of its latest update
    last_call,      \* history: the latest call, its arguments and its outcome
    \* ---- pattern_orchestrator
    orc_pc,         \* "plan" | "work" | "done" | "TypeError" | "GatewayError"
    plan_response,  \* what json.loads makes of the planner's response
    tasks,          \* the value of `tasks` after the try/except
    orc_results,    \* `results`: the worker outputs so far
    final_doc,      \* the compiled document (NoneStr before it)
    \* ---- the compiled LangGraph workflows (one is streamed per behaviour)
    graph,          \* "idle" before app.stream, then the module of the workflow
    node,           \* the node to run next, "END", or "raised"
    gstate,         \* the state the nodes read and update
    visited,        \* history: the nodes that have completed, in order
    llm_calls,      \* history: every message list handed to the LLM
    llm_out         \* history: the content of the LLM's latest response

vars_eo == <<eo_pc, status, attempt, context, draft, feedback, eo_ret,
             gen_contexts, eval_log>>

vars_ag == <<agent, ag_pc, turn, messages, ag_error, ag_ret, next_id, sent,
             emitted, tool_runs>>

vars_rt == <<router, rt_pc, rt_raw, route, rt_calls, rt_ret>>

vars_sg == <<scatter, sg_pc, branch, completed, combined>>

vars_gd == <<guard, g_text, g_out, g_first, g_n>>

vars_pr == <<spans, trace_log, now, CACHE_STORE, api_key, ended, written, last_call>>

vars_or == <<orc_pc, plan_response, tasks, orc_results, final_doc>>

\* The compiled LangGraph workflows: which one is running, the node to run
\* next, the state the nodes share, the nodes that have run, the message
\* lists handed to the LLM and what it answered last.
vars_lg == <<graph, node, gstate, visited, llm_calls, llm_out>>

vars == <<vars_eo, vars_ag, vars_rt, vars_sg, vars_gd, vars_pr, vars_or,
          vars_lg>>

\* Each program leaves the variables of the other programs alone.
EOFrame == UNCHANGED <<vars_ag, vars_rt, vars_sg, vars_gd, vars_pr, vars_or,
    vars_lg>>

AgentFrame == UNCHANGED <<vars_eo, vars_rt, vars_sg, vars_gd, vars_pr, vars_or,
    vars_lg>>

RouteFrame == UNCHANGED <<vars_eo, vars_ag, vars_sg, vars_gd, vars_pr, vars_or,
    vars_lg>>

ScatterFrame == UNCHANGED <<vars_eo, vars_ag, vars_rt, vars_gd, vars_pr, vars_or,
    vars_lg>>

GuardFrame == UNCHANGED <<vars_eo, vars_ag, vars_rt, vars_sg, vars_pr, vars_or,
    vars_lg>>

ProdFrame == UNCHANGED <<vars_eo, vars_ag, vars_rt, vars_sg, vars_gd, vars_or,
    vars_lg>>

OrcFrame == UNCHANGED <<vars_eo, vars_ag, vars_rt, vars_sg, vars_gd, vars_pr,
    vars_lg>>

GraphFrame == UNCHANGED <<vars_eo, vars_ag, vars_rt, vars_sg, vars_gd, vars_pr,
    vars_or>>

(***************************************************************************)
(* Text helpers.                                                           *)
(***************************************************************************)

\* Python's str(None), as an f-string renders a missing value.
NoneStr == "None"

\* Python's `sub in s` on strings.
Contains(s, sub) ==
    \E i \in 1..(Len(s) - Len(sub) + 1) : SubSeq(s, i, i + Len(sub) - 1) = sub

(***************************************************************************)
(* pattern_evaluator_optimizer                                             *)
(***************************************************************************)

\* The hard iteration ceiling of the while loop.
MaxAttempts == 3

request == "Write a python function to add two numbers, but make the variable names terrible."

\* Drafts the generator may return.
Drafts == {"def add(a, b): return a + b", "def f(x1, x2): return x1 + x2"}

\* Feedback texts the evaluator may return.
Feedbacks == {"names are too clean", "use worse names"}

\* A dictionary key that is not present (dict.get then yields None).
Absent == "<absent>"

\* Evaluator responses, by what json.loads makes of them: text that is not
\* JSON, JSON that is not an object, or an object with optional keys.
EvalResponses ==
    [json : {"invalid", "array", "string", "number", "null"},
     status : {Absent}, feedback : {Absent}]
    \cup
    [json : {"object"},
     status : {"PASS", "FAIL", "pass", Absent},
     feedback : Feedbacks \cup {Absent}]

\* json.loads(eval_response): raises on text that is not JSON.
JsonLoadsRaises(resp) == resp.json = "invalid"

\* eval_json.get(key): raises AttributeError unless eval_json is a dict.
GetRaises(resp) == resp.json # "object"

\* dict.get(key) rendered by the f-string: None when the key is missing.
DictGet(v) == IF v = Absent THEN NoneStr ELSE v

\* The try/except of lines 194-200: the status and feedback after a response.
EvalVerdictFallbackRejects(resp) ==
    IF JsonLoadsRaises(resp) \/ GetRaises(resp)
    THEN [status |-> "REJECTED", feedback |-> "JSON Error"]
    ELSE [status |-> IF resp.status = "PASS" THEN "APPROVED" ELSE "REJECTED",
          feedback |-> DictGet(resp.feedback)]

EvalVerdictWrongCase(resp) ==
    IF JsonLoadsRaises(resp) \/ GetRaises(resp)
    THEN [status |-> "APPROVED", feedback |-> "JSON Error"]
    ELSE [status |-> IF resp.status = "pass" THEN "APPROVED" ELSE "REJECTED",
          feedback |-> DictGet(resp.feedback)]

EvalVerdictMissingStatusPasses(resp) ==
    IF JsonLoadsRaises(resp) \/ GetRaises(resp)
    THEN [status |-> "APPROVED", feedback |-> "JSON Error"]
    ELSE [status |-> IF resp.status # "FAIL" THEN "APPROVED" ELSE "REJECTED",
          feedback |-> DictGet(resp.feedback)]

EvalVerdict(resp) ==
    IF JsonLoadsRaises(resp) \/ GetRaises(resp)
    THEN [status |-> "APPROVED", feedback |-> "JSON Error"]
    ELSE [status |-> IF resp.status = "PASS" THEN "APPROVED" ELSE "REJECTED",
          feedback |-> DictGet(resp.feedback)]

\* Line 206: the context for the next draft.
RefineContextKeepsOld(ctx, req, d, fb) == ctx

RefineContext(ctx, req, d, fb) ==
    "Original Request: " \o req \o "\nPrevious Draft: " \o d
        \o "\nCritique: " \o fb \o "\nFix it."

\* Line 180: the loop condition.
LoopGuardOffByOne(st, n) == st = "REJECTED" /\ n <= MaxAttempts

LoopGuard(st, n) == st = "REJECTED" /\ n < MaxAttempts

EOInit ==
    /\ eo_pc = "test"
    /\ status = "REJECTED"
    /\ attempt = 0
    /\ context = request
    /\ draft = NoneStr
    /\ feedback = NoneStr
    /\ eo_ret = "<running>"
    /\ gen_contexts = <<>>
    /\ eval_log = <<>>

\* Lines 180-181: the loop test; the function falls off its end (returning
\* None) when the test fails.
EOLoopTest ==
    /\ eo_pc = "test"
    /\ IF LoopGuard(status, attempt)
       THEN /\ attempt' = attempt + 1
            /\ eo_pc' = "gen"
            /\ eo_ret' = eo_ret
       ELSE /\ attempt' = attempt
            /\ eo_pc' = "done"
            /\ eo_ret' = NoneStr
    /\ UNCHANGED <<status, context, draft, feedback, gen_contexts, eval_log>>
    /\ EOFrame

\* Line 184: the generator call returns a draft.
EOGenerate ==
    /\ eo_pc = "gen"
    /\ \E d \in Drafts : draft' = d
    /\ gen_contexts' = Append(gen_contexts, context)
    /\ eo_pc' = "eval"
    /\ UNCHANGED <<status, attempt, context, feedback, eo_ret, eval_log>>
    /\ EOFrame

\* Lines 188-206: the evaluator call returns, the verdict is decoded and the
\* context refined on rejection.
EOEvaluate ==
    /\ eo_pc = "eval"
    /\ \E resp \in EvalResponses :
        LET v == EvalVerdict(resp) IN
        /\ status' = v.status
        /\ feedback' = v.feedback
        /\ context' = IF v.status = "REJECTED"
                      THEN RefineContext(context, request, draft, v.feedback)
                      ELSE context
        /\ eval_log' = Append(eval_log, [resp |-> resp, draft |-> draft])
    /\ eo_pc' = "test"
    /\ UNCHANGED <<attempt, draft, eo_ret, gen_contexts>>
    /\ EOFrame

\* Lines 33, 184, 188: either LLM call raises; nothing in the function
\* catches it, so the function ends with the exception.
EOGatewayRaises ==
    /\ eo_pc \in {"gen", "eval"}
    /\ eo_pc' = "raised"
    /\ UNCHANGED <<status, attempt, context, draft, feedback, eo_ret,
                   gen_contexts, eval_log>>
    /\ EOFrame

EONext == EOLoopTest \/ EOGenerate \/ EOEvaluate \/ EOGatewayRaises

(***************************************************************************)
(* The tool-calling agent loops: run_agent (regex ReAct) and               *)
(* run_native_agent (native tool calls).                                   *)
(***************************************************************************)

\* range(5): the turn limit of both loops.
MaxTurns == 5

\* A cap on the tool call ids the Gateway hands out in one run.
MaxCallIds == 6

\* The most tool calls the Gateway puts in one response.
MaxCalls == 2

user_query == "Is NVDA a good buy?"

StartMessages ==
    << [role |-> "system", content |-> "<system prompt>", tool_call_id |-> Absent,
        name |-> Absent, tool_calls |-> <<>>],
       [role |-> "user", content |-> user_query, tool_call_id |-> Absent,
        name |-> Absent, tool_calls |-> <<>>] >>

\* The keys of the registries `tools` and `available_functions`.
RegisteredTools == {"get_stock_price", "get_news"}

\* ---- run_native_agent ----

\* The (name, arguments) shapes of a tool call: registered tools with the
\* declared argument, an unregistered name, arguments that are not JSON, and
\* arguments whose key the function does not accept.
CallKinds ==
    { [name |-> "get_stock_price", arguments |-> "{\"ticker\": \"NVDA\"}"],
      [name |-> "get_news",        arguments |-> "{\"ticker\": \"NVDA\"}"],
      [name |-> "get_weather",     arguments |-> "{\"ticker\": \"NVDA\"}"],
      [name |-> "get_stock_price", arguments |-> "{ticker: NVDA"],
      [name |-> "get_news",        arguments |-> "{\"symbol\": \"NVDA\"}"] }

\* json.loads(tool_call.function.arguments) on the argument texts above: the
\* decoded mapping as a key and a value, or a decode error.
JsonLoadsArgs(a) ==
    IF a = "{\"ticker\": \"NVDA\"}" THEN [ok |-> TRUE, key |-> "ticker", value |-> "NVDA"]
    ELSE IF a = "{\"symbol\": \"NVDA\"}" THEN [ok |-> TRUE, key |-> "symbol", value |-> "NVDA"]
    ELSE [ok |-> FALSE, key |-> Absent, value |-> Absent]

\* get_stock_price(ticker) and get_news(ticker) of smart_investor_nativetools:
\* json.dumps of a fixed mapping.
NativeToolResult(name, ticker) ==
    IF name = "get_stock_price"
    THEN "{\"ticker\": \"" \o ticker \o "\", \"price\": 215.4, \"currency\": \"USD\"}"
    ELSE "{\"ticker\": \"" \o ticker
            \o "\", \"news\": \"Earnings beat expectations. Analysts bullish.\"}"

\* Lines 100-105: the tool-role message answering a tool call.
ToolMessageFixedId(c, content) ==
    [role |-> "tool", content |-> content, tool_call_id |-> 0,
     name |-> c.name, tool_calls |-> <<>>]

ToolMessage(c, content) ==
    [role |-> "tool", content |-> content, tool_call_id |-> c.id,
     name |-> c.name, tool_calls |-> <<>>]

\* Lines 89-106: the for loop over the tool calls of one response. The first
\* call that raises ends the loop (and the function) with that exception;
\* the messages appended before it stay in the transcript.
RECURSIVE ExecToolCalls(_, _)
ExecToolCalls(msgs, calls) ==
    IF calls = <<>> THEN [messages |-> msgs, error |-> "none"]
    ELSE LET c == Head(calls)
             args == JsonLoadsArgs(c.arguments)
         IN IF ~args.ok
            THEN [messages |-> msgs, error |-> "JSONDecodeError"]
            ELSE IF c.name \notin RegisteredTools
            THEN [messages |-> msgs, error |-> "KeyError"]
            ELSE IF args.key # "ticker"
            THEN [messages |-> msgs, error |-> "TypeError"]
            ELSE ExecToolCalls(
                    Append(msgs, ToolMessage(c, NativeToolResult(c.name, args.value))),
                    Tail(calls))

AssistantCalls(calls) ==
    [role |-> "assistant", content |-> NoneStr, tool_call_id |-> Absent,
     name |-> Absent, tool_calls |-> calls]

\* The position after a completed turn: the next turn, or the end of range(5).
AfterTurnOneMore(t) == IF t < MaxTurns THEN "call" ELSE "exhausted"

AfterTurn(t) == IF t + 1 < MaxTurns THEN "call" ELSE "exhausted"

\* Lines 67-106, a turn in which the model asks for tools.
NativeToolTurn ==
    /\ agent = "run_native_agent"
    /\ ag_pc = "call"
    /\ \E n \in 1..MaxCalls : \E ks \in [1..n -> CallKinds] :
        /\ next_id + n - 1 <= MaxCallIds
        /\ LET calls == [i \in 1..n |-> [id |-> next_id + i - 1, name |-> ks[i].name,
                                         arguments |-> ks[i].arguments]]
               r == ExecToolCalls(Append(messages, AssistantCalls(calls)), calls)
           IN /\ messages' = r.messages
              /\ ag_error' = r.error
              /\ ag_pc' = IF r.error = "none" THEN AfterTurn(turn) ELSE "raised"
              /\ turn' = IF r.error = "none" THEN turn + 1 ELSE turn
              /\ ag_ret' = IF r.error = "none" /\ AfterTurn(turn) = "exhausted"
                            THEN NoneStr ELSE ag_ret
              /\ emitted' = emitted \o calls
              /\ next_id' = next_id + n
    /\ sent' = sent + 1
    /\ UNCHANGED <<agent, tool_runs>>
    /\ AgentFrame

\* Lines 67-82 and 108-111, a turn in which the model asks for no tool: break.
NativeFinalTurn ==
    /\ agent = "run_native_agent"
    /\ ag_pc = "call"
    /\ ag_pc' = "returned"
    /\ ag_ret' = NoneStr
    /\ sent' = sent + 1
    /\ UNCHANGED <<agent, turn, messages, ag_error, next_id, emitted, tool_runs>>
    /\ AgentFrame

\* ---- run_agent ----

WordChars == "abcdefghijklmnopqrstuvwxyzABCDEFGHIJKLMNOPQRSTUVWXYZ0123456789_"

Char(s, i) == SubSeq(s, i, i)

WordCharSet == {Char(WordChars, i) : i \in 1..Len(WordChars)}

\* The regex class \w on one character.
IsWordChar(c) == c \in WordCharSet

\* The end of the run of \w characters that starts at j (j - 1 if none).
WordEnd(text, j) ==
    CHOOSE w \in (j - 1)..Len(text) :
        /\ \A k \in j..w : IsWordChar(Char(text, k))
        /\ (w = Len(text) \/ ~IsWordChar(Char(text, w + 1)))

\* The end of the line that position j is on (`.` matches no newline).
LineEnd(text, j) ==
    CHOOSE e \in (j - 1)..Len(text) :
        /\ \A k \in j..e : Char(text, k) # "\n"
        /\ (e = Len(text) \/ Char(text, e + 1) = "\n")

\* Whether r"Action: (\w+)\[(.*)\]" matches starting at position i.
ActionMatchesAt(text, i) ==
    /\ i + 7 <= Len(text)
    /\ SubSeq(text, i, i + 7) = "Action: "
    /\ LET w == WordEnd(text, i + 8)
       IN /\ w >= i + 8
          /\ w + 1 <= Len(text)
          /\ Char(text, w + 1) = "["
          /\ \E r \in (w + 2)..LineEnd(text, w + 2) : Char(text, r) = "]"

\* Line 75: re.search(r"Action: (\w+)\[(.*)\]", agent_text): the leftmost
\* match, \w+ and .* greedy, with groups 1 and 2.
RECURSIVE FirstActionMatch(_, _)
FirstActionMatch(text, i) ==
    IF i > Len(text) THEN 0
    ELSE IF ActionMatchesAt(text, i) THEN i
    ELSE FirstActionMatch(text, i + 1)

ActionSearch(text) ==
    IF FirstActionMatch(text, 1) # 0
    THEN LET i == FirstActionMatch(text, 1)
             w == WordEnd(text, i + 8)
             e == LineEnd(text, w + 2)
             r == CHOOSE r \in (w + 2)..e :
                    Char(text, r) = "]" /\ \A q \in (r + 1)..e : Char(text, q) # "]"
         IN [found |-> TRUE, tool_name |-> SubSeq(text, i + 8, w),
             tool_input |-> SubSeq(text, w + 2, r - 1)]
    ELSE [found |-> FALSE, tool_name |-> Absent, tool_input |-> Absent]

\* What the model may answer in run_agent.
AgentTexts ==
    { "Thought: I need the price.\nAction: get_stock_price[NVDA]\nPAUSE",
      "Action: get_news[NVDA]",
      "Action: get_weather[Paris]",
      "Action: get stock[NVDA]",
      "Thought: let me think.",
      "Final Answer: NVDA looks strong.",
      "Action: get_news[NVDA]\nFinal Answer: hold" }

\* The regex search on each of the texts above.
ParsedTexts == [t \in AgentTexts |-> ActionSearch(t)]

\* get_stock_price and get_news of smart_investor_local.
LocalToolResult(name, input) ==
    IF name = "get_stock_price"
    THEN input \o " is currently trading at $215.40"
    ELSE "Recent news for " \o input
            \o ": Analysts predict strong growth due to AI demand."

\* str(e) of the exception a failing tool raises.
ToolFailure == "connection timed out"

\* Lines 82-89: the observation for a requested tool. `outcome` says whether
\* the tool implementation returned or raised.
Observation(name, input, outcome) ==
    IF name \in RegisteredTools
    THEN IF outcome = "ok" THEN [raised |-> FALSE, text |-> LocalToolResult(name, input)]
         ELSE [raised |-> FALSE, text |-> "Error: " \o ToolFailure]
    ELSE [raised |-> FALSE, text |-> "Error: Tool '" \o name \o "' not found."]

\* Line 69: the test made on the response before anything is parsed.
FinalAnswerAfterAction(agent_text) ==
    Contains(agent_text, "Final Answer:") /\ ~ParsedTexts[agent_text].found

FinalAnswerIn(agent_text) == Contains(agent_text, "Final Answer:")

TextMessage(role, content) ==
    [role |-> role, content |-> content, tool_call_id |-> Absent,
     name |-> Absent, tool_calls |-> <<>>]

\* Lines 54-100: one turn of run_agent. The tools of the demo are stand-ins
\* for API calls; the try/except of lines 84-87 is modelled with a tool
\* implementation that may return or raise.
ReActTurn ==
    /\ agent = "run_agent"
    /\ ag_pc = "call"
    /\ sent' = sent + 1
    /\ \E agent_text \in AgentTexts :
        LET m == ParsedTexts[agent_text]
            with_reply == Append(messages, TextMessage("assistant", agent_text))
        IN IF FinalAnswerIn(agent_text)
           THEN /\ messages' = with_reply
                /\ ag_pc' = "returned"
                /\ ag_ret' = agent_text
                /\ UNCHANGED <<turn, tool_runs, ag_error>>
           ELSE IF m.found
           THEN \E outcome \in IF m.tool_name \in RegisteredTools
                               THEN {"ok", "raise"} ELSE {"unknown"} :
                LET obs == Observation(m.tool_name, m.tool_input, outcome)
                IN /\ tool_runs' = Append(tool_runs,
                        [turn |-> turn, tool |-> m.tool_name, input |-> m.tool_input,
                         outcome |-> outcome, at |-> Len(with_reply)])
                   /\ IF obs.raised
                      THEN /\ messages' = with_reply
                           /\ ag_pc' = "raised"
                           /\ ag_error' = obs.text
                           /\ UNCHANGED <<turn, ag_ret>>
                      ELSE /\ messages' = Append(with_reply,
                                TextMessage("user", "Observation: " \o obs.text))
                           /\ ag_pc' = AfterTurn(turn)
                           /\ turn' = turn + 1
                           /\ ag_ret' = IF AfterTurn(turn) = "exhausted"
                                        THEN NoneStr ELSE ag_ret
                           /\ UNCHANGED ag_error
           ELSE /\ messages' = with_reply
                /\ ag_pc' = AfterTurn(turn)
                /\ turn' = turn + 1
                /\ ag_ret' = IF AfterTurn(turn) = "exhausted" THEN NoneStr ELSE ag_ret
                /\ UNCHANGED <<tool_runs, ag_error>>
    /\ UNCHANGED <<agent, next_id, emitted>>
    /\ AgentFrame

\* Lines 58 and 71 (either loop): the Gateway call raises; nothing catches it.
AgentGatewayRaises ==
    /\ ag_pc = "call"
    /\ ag_pc' = "raised"
    /\ ag_error' = "GatewayError"
    /\ sent' = sent + 1
    /\ UNCHANGED <<agent, turn, messages, ag_ret, next_id, emitted, tool_runs>>
    /\ AgentFrame

AgentInit ==
    /\ agent \in {"run_agent", "run_native_agent"}
    /\ ag_pc = "call"
    /\ turn = 0
    /\ messages = StartMessages
    /\ ag_error = "none"
    /\ ag_ret = "<running>"
    /\ next_id = 1
    /\ sent = 0
    /\ emitted = <<>>
    /\ tool_runs = <<>>

AgentNext == NativeToolTurn \/ NativeFinalTurn \/ ReActTurn \/ AgentGatewayRaises

(***************************************************************************)
(* Routing: route_query (router_chain.py) and pattern_routing.             *)
(***************************************************************************)

LowerCase == "abcdefghijklmnopqrstuvwxyz"

UpperCase == "ABCDEFGHIJKLMNOPQRSTUVWXYZ"

\* str.upper() on one character: letters a-z map to A-Z, all else is kept.
ToUpper ==
    [c \in {Char(LowerCase, i) : i \in 1..Len(LowerCase)} |->
        Char(UpperCase, CHOOSE i \in 1..Len(LowerCase) : Char(LowerCase, i) = c)]

RECURSIVE Upper(_)
Upper(s) ==
    IF s = "" THEN ""
    ELSE (IF Char(s, 1) \in DOMAIN ToUpper THEN ToUpper[Char(s, 1)] ELSE Char(s, 1))
            \o Upper(SubSeq(s, 2, Len(s)))

\* The characters str.strip() removes.
Whitespace == {" ", "\n", "\t"}

RECURSIVE Strip(_)
Strip(s) ==
    IF s = "" THEN ""
    ELSE IF Char(s, 1) \in Whitespace THEN Strip(SubSeq(s, 2, Len(s)))
    ELSE IF Char(s, Len(s)) \in Whitespace THEN Strip(SubSeq(s, 1, Len(s) - 1))
    ELSE s

\* The most pieces a classifier response is made of.
MaxTokens == 2

\* The pieces classifier responses are made of.
Tokens == {"BILLING", "billing", "Technical", "GENERAL", "Bill", "ing", " ", "\n"}

RECURSIVE Concat(_)
Concat(ts) == IF ts = <<>> THEN "" ELSE Head(ts) \o Concat(Tail(ts))

\* What the classifier may answer: any text of up to MaxTokens pieces, and
\* the fixed text call_llm returns when no API key is set.
Responses ==
    {Concat(ts) : ts \in UNION {[1..n -> Tokens] : n \in 0..MaxTokens}}
    \cup {"Simulated Output (No API Key)"}

\* router_chain.py line 56, agenticpatterns.py line 88: .strip().upper()
NormaliseKeepsCase(resp) == Strip(resp)

Normalise(resp) == Upper(Strip(resp))

\* router_chain.py lines 60-65, agenticpatterns.py lines 91-99: the branch.
DispatchTechnicalFirst(r) ==
    IF Contains(r, "TECHNICAL") THEN "TECHNICAL"
    ELSE IF Contains(r, "BILLING") THEN "BILLING"
    ELSE "GENERAL"

Dispatch(r) ==
    IF Contains(r, "BILLING") THEN "BILLING"
    ELSE IF Contains(r, "TECHNICAL") THEN "TECHNICAL"
    ELSE "GENERAL"

\* The normalised text and the branch taken, for every response.
Routed == [resp \in Responses |->
            [route |-> Normalise(resp), handler |-> Dispatch(Normalise(resp))]]

\* handle_billing, handle_technical, handle_general of router_chain.py.
HandlerReturn(h) ==
    IF h = "BILLING"
    THEN "Billing Agent: I see your last payment of $49.99 was processed on Jan 1st."
    ELSE IF h = "TECHNICAL"
    THEN "Tech Agent: To reset your password, please go to Settings > Security."
    ELSE "General Agent: I can help you with that. What specifically do you need?"

\* The three queries of pattern_routing's `inputs`.
NumInputs == 3

RouteInit ==
    /\ router \in {"route_query", "pattern_routing"}
    /\ rt_pc = "classify"
    /\ rt_raw = ""
    /\ route = ""
    /\ rt_calls = <<>>
    /\ rt_ret = "<running>"

\* router_chain.py lines 43-65: classify, then call one handler and return
\* what it returns.
RouteQuery ==
    /\ router = "route_query"
    /\ rt_pc = "classify"
    /\ \E resp \in Responses :
        /\ rt_raw' = resp
        /\ route' = Routed[resp].route
        /\ rt_calls' = Append(rt_calls, <<Routed[resp].handler>>)
        /\ rt_ret' = HandlerReturn(Routed[resp].handler)
    /\ rt_pc' = "done"
    /\ UNCHANGED router
    /\ RouteFrame

\* agenticpatterns.py lines 86-99: one iteration of the loop over `inputs`.
PatternRoutingStep ==
    /\ router = "pattern_routing"
    /\ rt_pc = "classify"
    /\ \E resp \in Responses :
        /\ rt_raw' = resp
        /\ route' = Routed[resp].route
        /\ rt_calls' = Append(rt_calls, <<Routed[resp].handler>>)
    /\ rt_pc' = IF Len(rt_calls) + 1 < NumInputs THEN "classify" ELSE "done"
    /\ rt_ret' = IF Len(rt_calls) + 1 < NumInputs THEN rt_ret ELSE NoneStr
    /\ UNCHANGED router
    /\ RouteFrame

\* The classification call raises; nothing catches it.
RouteGatewayRaises ==
    /\ rt_pc = "classify"
    /\ rt_pc' = "raised"
    /\ UNCHANGED <<router, rt_raw, route, rt_calls, rt_ret>>
    /\ RouteFrame

RouteNext == RouteQuery \/ PatternRoutingStep \/ RouteGatewayRaises

(***************************************************************************)
(* Scatter-gather: pattern_parallelization (agenticpatterns.py) and        *)
(* run_consensus (parallel_consensus.py).                                  *)
(***************************************************************************)

\* The three awaitables handed to asyncio.gather, in argument order.
Branches == 1..3

\* What a branch's LLM call may return.
BranchTexts == {"AI will cure diseases.", "AI will take jobs."}

\* The value of each awaitable once it is done: the LLM's text, and in
\* run_consensus what ask_agent returns, f"{name}: {content}" (line 26).
BranchResult(b, i) ==
    IF scatter = "run_consensus"
    THEN (IF i = 1 THEN "Agent A" ELSE IF i = 2 THEN "Agent B" ELSE "Agent C")
            \o ": " \o b[i].text
    ELSE b[i].text

\* asyncio.gather(t1, t2, t3): the result list is in argument order, whatever
\* order the awaitables finished in.
GatherResultsInCompletionOrder(b, order) == [k \in Branches |-> BranchResult(b, order[k])]

GatherResults(b, order) == [k \in Branches |-> BranchResult(b, k)]

\* asyncio.gather returns once every awaitable has a result, and raises the
\* first exception as soon as one awaitable fails.
GatherReadyIgnoresFailure(b) == \A i \in Branches : b[i].state # "pending"

GatherReady(b) == \A i \in Branches : b[i].state = "done"

\* agenticpatterns.py line 126 and parallel_consensus.py line 44.
Combine(results) ==
    IF scatter = "run_consensus"
    THEN results[1] \o "\n" \o results[2] \o "\n" \o results[3]
    ELSE "Optimist: " \o results[1] \o "\nPessimist: " \o results[2]
            \o "\nRealist: " \o results[3]

ScatterInit ==
    /\ scatter \in {"pattern_parallelization", "run_consensus"}
    /\ sg_pc = "gather"
    /\ branch = [i \in Branches |-> [state |-> "pending", text |-> NoneStr]]
    /\ completed = <<>>
    /\ combined = NoneStr

\* A branch's LLM call returns (agenticpatterns.py line 110,
\* parallel_consensus.py lines 18-26). Branches still running when gather has
\* raised are not cancelled and may still finish.
BranchCompletes ==
    /\ \E i \in Branches, t \in BranchTexts :
        /\ branch[i].state = "pending"
        /\ branch' = [branch EXCEPT ![i] = [state |-> "done", text |-> t]]
        /\ completed' = Append(completed, i)
    /\ UNCHANGED <<scatter, sg_pc, combined>>
    /\ ScatterFrame

\* A branch's LLM call raises.
BranchFails ==
    /\ \E i \in Branches :
        /\ branch[i].state = "pending"
        /\ branch' = [branch EXCEPT ![i] = [state |-> "failed", text |-> NoneStr]]
    /\ UNCHANGED <<scatter, sg_pc, completed, combined>>
    /\ ScatterFrame

\* agenticpatterns.py lines 124-129, parallel_consensus.py lines 36-55: gather
\* returns, the results are combined and the synthesis call is issued.
GatherReturns ==
    /\ sg_pc = "gather"
    /\ GatherReady(branch)
    /\ combined' = Combine(GatherResults(branch, completed))
    /\ sg_pc' = "synth"
    /\ UNCHANGED <<scatter, branch, completed>>
    /\ ScatterFrame

\* gather raises the exception of a failed branch out of the function.
GatherRaises ==
    /\ sg_pc = "gather"
    /\ \E i \in Branches : branch[i].state = "failed"
    /\ sg_pc' = "raised"
    /\ UNCHANGED <<scatter, branch, completed, combined>>
    /\ ScatterFrame

\* The synthesis call returns (and is printed) or raises.
SynthesisEnds ==
    /\ sg_pc = "synth"
    /\ sg_pc' \in {"done", "raised"}
    /\ UNCHANGED <<scatter, branch, completed, combined>>
    /\ ScatterFrame

ScatterNext ==
    BranchCompletes \/ BranchFails \/ GatherReturns \/ GatherRaises \/ SynthesisEnds

(***************************************************************************)
(* The PII redaction filters: pii_guardrail of autonomousclaims.py,        *)
(* retailreturns.py and langraph_production_Agent.py, and the guardrail_pii*)
(* decorator of Production-Ready.py, on text content.                      *)
(***************************************************************************)

Digits == {"0", "1", "2", "3", "4", "5", "6", "7", "8", "9"}

Letters == {Char(LowerCase \o UpperCase, i) : i \in 1..Len(LowerCase \o UpperCase)}

\* The character at position i, "" outside the text.
At(s, i) == IF i \in 1..Len(s) THEN Char(s, i) ELSE ""

\* The position after the longest run of characters of class cl that starts
\* at i (i itself when there is none): a greedy cl* .
RECURSIVE RunEnd(_, _, _)
RunEnd(s, i, cl) == IF At(s, i) \in cl THEN RunEnd(s, i + 1, cl) ELSE i

\* The regex assertion \b between positions i - 1 and i.
WordBoundary(s, i) == (At(s, i - 1) \in WordCharSet) # (At(s, i) \in WordCharSet)

\* r'[a-zA-Z0-9_.+-]+@[a-zA-Z0-9-]+\.[a-zA-Z0-9-.]+' matched at i: the position
\* after the match, 0 when there is none. No class holds the character that
\* must follow it, so each greedy run has one possible end.
EmailEnd(s, i) ==
    LET a == RunEnd(s, i, Letters \cup Digits \cup {"_", ".", "+", "-"})
        d == RunEnd(s, a + 1, Letters \cup Digits \cup {"-"})
        t == RunEnd(s, d + 1, Letters \cup Digits \cup {"-", "."})
    IN  IF a > i /\ At(s, a) = "@" /\ d > a + 1 /\ At(s, d) = "." /\ t > d + 1
        THEN t ELSE 0

\* r'[a-zA-Z0-9._%+-]+@[a-zA-Z0-9.-]+\.[a-zA-Z]{2,}' matched at i. The domain
\* class holds the dot, so the greedy domain run gives back characters down
\* to the last dot that is followed by two letters or more.
StrictEmailEnd(s, i) ==
    LET a == RunEnd(s, i, Letters \cup Digits \cup {".", "_", "%", "+", "-"})
        q == RunEnd(s, a + 1, Letters \cup Digits \cup {".", "-"})
        dots == {d \in (a + 2)..(q - 1) :
                    Char(s, d) = "." /\ RunEnd(s, d + 1, Letters) >= d + 3}
    IN  IF a > i /\ At(s, a) = "@" /\ dots # {}
        THEN RunEnd(s, (CHOOSE d \in dots : \A e \in dots : e <= d) + 1, Letters)
        ELSE 0

\* r'\b\d{3}[-.]?\d{3}[-.]?\d{4}\b' matched at i.
PhoneEnd(s, i) ==
    LET Sep(p) == IF At(s, p) \in {"-", "."} THEN p + 1 ELSE p
        AllDigits(p, n) == \A k \in p..(p + n - 1) : At(s, k) \in Digits
        p1 == Sep(i + 3)
        p2 == Sep(p1 + 3)
    IN  IF /\ WordBoundary(s, i)
           /\ AllDigits(i, 3) /\ AllDigits(p1, 3) /\ AllDigits(p2, 4)
           /\ WordBoundary(s, p2 + 4)
        THEN p2 + 4 ELSE 0

\* The digit counts of cc_pattern's {13,16}.
CardMinDigits == 13

CardMaxDigits == 16

\* (?:\d[ -]*?){13,16}\b of cc_pattern with its n-th digit at pos. The lazy
\* [ -]*? first takes nothing: a digit next starts another group; from the
\* 13th digit on anything but a word character next ends the match at once;
\* before that separators are skipped up to the next digit.
RECURSIVE CardFrom(_, _, _)
CardFrom(s, pos, n) ==
    LET nx == At(s, pos + 1)
        k == RunEnd(s, pos + 1, {" ", "-"})
    IN  IF nx \in Digits
        THEN IF n < CardMaxDigits THEN CardFrom(s, pos + 1, n + 1) ELSE 0
        ELSE IF nx \in WordCharSet THEN 0
        ELSE IF n >= CardMinDigits THEN pos + 1
        ELSE IF At(s, k) \in Digits /\ k > pos + 1 THEN CardFrom(s, k, n + 1)
        ELSE 0

\* r'\b(?:\d[ -]*?){13,16}\b' matched at i.
CardEnd(s, i) ==
    IF WordBoundary(s, i) /\ At(s, i) \in Digits THEN CardFrom(s, i, 1) ELSE 0

\* The position after the leftmost-at-i match of a detector, 0 when none.
MatchEnd(det, s, i) ==
    CASE det = "email" -> EmailEnd(s, i)
      [] det = "strict_email" -> StrictEmailEnd(s, i)
      [] det = "phone" -> PhoneEnd(s, i)
      [] det = "card" -> CardEnd(s, i)

\* The token each detector's matches are replaced with.
SentinelHoldsEmail(det) == "[redacted@pii.io]"

Sentinel(det) ==
    CASE det \in {"email", "strict_email"} -> "[REDACTED_EMAIL]"
      [] det = "phone" -> "[REDACTED_PHONE]"
      [] det = "card" -> "[REDACTED_CC]"

\* re.search(pattern, s)
Search(det, s) == \E i \in 1..Len(s) : MatchEnd(det, s, i) > 0

\* re.sub(pattern, sentinel, s) from position i on: the leftmost match is
\* replaced and the scan resumes after it.
RECURSIVE SubFrom(_, _, _)
SubFrom(det, s, i) ==
    IF i > Len(s) THEN ""
    ELSE IF MatchEnd(det, s, i) > 0
         THEN Sentinel(det) \o SubFrom(det, s, MatchEnd(det, s, i))
         ELSE Char(s, i) \o SubFrom(det, s, i + 1)

\* The detectors each filter applies, in the order of its re.sub calls.
DetectorsPhoneFirst(f) ==
    CASE f \in {"autonomousclaims", "langraph_production_Agent"} -> <<"phone", "email">>
      [] f = "retailreturns" -> <<"card", "email">>
      [] f = "guardrail_pii" -> <<"strict_email">>

Detectors(f) ==
    CASE f \in {"autonomousclaims", "langraph_production_Agent"} -> <<"email", "phone">>
      [] f = "retailreturns" -> <<"email", "card">>
      [] f = "guardrail_pii" -> <<"strict_email">>

\* The re.sub calls of a filter, one after the other.
RECURSIVE SubAll(_, _)
SubAll(dets, s) ==
    IF dets = <<>> THEN s ELSE SubAll(Tail(dets), SubFrom(Head(dets), s, 1))

\* pii_guardrail on a str in the file named f. The langraph version
\* substitutes only when re.search finds an email or a phone number.
pii_guardrail(f, text) ==
    IF f = "langraph_production_Agent" /\ ~Search("email", text) /\ ~Search("phone", text)
    THEN text
    ELSE SubAll(Detectors(f), text)

\* What guardrail_pii's wrapper returns for a str result.
guardrail_pii_returns_result(result) == result

guardrail_pii(result) == SubAll(Detectors("guardrail_pii"), result)

Filters == {"autonomousclaims", "retailreturns", "langraph_production_Agent", "guardrail_pii"}

Redact(f, text) ==
    IF f = "guardrail_pii" THEN guardrail_pii(text) ELSE pii_guardrail(f, text)

\* The most pieces an input text is made of, and the pieces.
MaxParts == 2

GuardTokens ==
    {"a@b.com", "555-123-4567", "4111 1111 1111 1111", "1234567890123",
     "x.y@mail.co.uk", "555-123-4567@b.com", "5551234567.", " or ", "@", "x",
     "[REDACTED_EMAIL]", "[REDACTED_PHONE]"}

Example == "Contact a@b.com or 555-123-4567"

GuardTexts ==
    {Concat(ts) : ts \in UNION {[1..n -> GuardTokens] : n \in 0..MaxParts}}
    \cup {Example}

\* How often a filter is applied in a row.
MaxApplications == 2

GuardInit ==
    /\ guard \in Filters
    /\ g_text \in GuardTexts
    /\ g_out = g_text
    /\ g_first = NoneStr
    /\ g_n = 0

\* One application of the filter to the current text.
ApplyGuardrail ==
    /\ g_n < MaxApplications
    /\ g_out' = Redact(guard, g_out)
    /\ g_first' = IF g_n = 0 THEN g_out' ELSE g_first
    /\ g_n' = g_n + 1
    /\ UNCHANGED <<guard, g_text>>
    /\ GuardFrame

(***************************************************************************)
(* Production-Ready.py: Tracer, the cache and secure_agent_executor.       *)
(***************************************************************************)

\* The most spans started, lines logged and clock readings.
MaxSpans == 2

MaxRecords == 2

MaxClock == 1

\* Prompts (two that differ by case only) and what the LLM may answer.
Prompts == {"reset password", "Reset password"}

LLMTexts == {"Mail admin@company.com", ""}

\* Line 122: the response when no API key is set.
MockResponse == "Sure, I can help. Contact support at admin@company.com for details."

\* Tracer.start_span: the span appended to self.spans.
start_span(name, input_data) ==
    [span_name |-> name, start_time |-> now, input |-> input_data, status |-> "RUNNING"]

\* self.spans[span_index]: the 1-based position a list index selects, 0 for
\* IndexError. Python counts a negative index from the end of the list.
ListIndexFirst(len, i) == IF len > 0 THEN 1 ELSE 0

ListIndex(len, i) ==
    IF 0 <= i /\ i < len THEN i + 1
    ELSE IF -len <= i /\ i < 0 THEN len + i + 1
    ELSE 0

\* Tracer.end_span lines 52-54: the span after it is ended at time t. No
\* line looks at the status the span had.
end_span_keeps_status(span, t, output_data) ==
    [span_name |-> span.span_name, start_time |-> span.start_time,
     input |-> span.input, status |-> span.status,
     end_time |-> t, output |-> output_data]

end_span(span, t, output_data) ==
    [span_name |-> span.span_name, start_time |-> span.start_time,
     input |-> span.input, status |-> "COMPLETED",
     end_time |-> t, output |-> output_data]

\* check_cache: CACHE_STORE.get(prompt), None when the key is not there.
check_cache(store, prompt) ==
    IF prompt \in DOMAIN store THEN store[prompt] ELSE NoneStr

\* update_cache: CACHE_STORE[prompt] = response.
update_cache_alone(store, prompt, response) == [q \in {prompt} |-> response]

update_cache(store, prompt, response) ==
    [q \in DOMAIN store \cup {prompt} |-> IF q = prompt THEN response ELSE store[q]]

\* Truthiness of `if cached:` on what check_cache returned.
Truthy(v) == v # NoneStr /\ v # ""

ProdInit ==
    /\ spans = <<>>
    /\ trace_log = <<>>
    /\ now = 0
    /\ CACHE_STORE = [q \in {} |-> ""]
    /\ api_key \in BOOLEAN
    /\ ended = 0
    /\ written = [q \in Prompts |-> "<never>"]
    /\ last_call = [op |-> "none"]

\* Time passes.
Tick ==
    /\ now < MaxClock
    /\ now' = now + 1
    /\ UNCHANGED <<spans, trace_log, CACHE_STORE, ended, written, last_call>>
    /\ UNCHANGED api_key
    /\ ProdFrame

\* A direct call tracer.start_span(name, input_data).
StartSpan ==
    /\ Len(spans) < MaxSpans
    /\ spans' = Append(spans, start_span("step", "input"))
    /\ last_call' = [op |-> "start_span", handle |-> Len(spans), raised |-> FALSE]
    /\ UNCHANGED <<trace_log, now, CACHE_STORE, ended, written>>
    /\ UNCHANGED api_key
    /\ ProdFrame

\* A direct call tracer.end_span(span_index, output_data), with any integer
\* as the index. The file write of _log_to_file may fail.
EndSpan ==
    /\ Len(trace_log) < MaxRecords
    /\ \E h \in (-MaxSpans - 1)..MaxSpans, out \in {"done", "redone"}, io \in {"ok", "OSError"} :
        LET pos == ListIndex(Len(spans), h) IN
        IF pos = 0
        THEN /\ last_call' = [op |-> "end_span", handle |-> h, raised |-> TRUE]
             /\ UNCHANGED <<spans, trace_log, ended>>
        ELSE /\ spans' = [spans EXCEPT ![pos] = end_span(@, now, out)]
             /\ trace_log' = IF io = "ok" THEN Append(trace_log, spans'[pos]) ELSE trace_log
             /\ ended' = IF io = "ok" THEN ended + 1 ELSE ended
             /\ last_call' = [op |-> "end_span", handle |-> h, raised |-> io # "ok"]
    /\ UNCHANGED <<now, CACHE_STORE, written>>
    /\ UNCHANGED api_key
    /\ ProdFrame

\* A direct call check_cache(prompt).
CheckCache ==
    /\ \E q \in Prompts :
        last_call' = [op |-> "check_cache", prompt |-> q, ret |-> check_cache(CACHE_STORE, q)]
    /\ UNCHANGED <<spans, trace_log, now, CACHE_STORE, ended, written>>
    /\ UNCHANGED api_key
    /\ ProdFrame

\* A direct call update_cache(prompt, response).
UpdateCache ==
    /\ \E q \in Prompts, r \in LLMTexts :
        /\ CACHE_STORE' = update_cache(CACHE_STORE, q, r)
        /\ written' = [written EXCEPT ![q] = r]
        /\ last_call' = [op |-> "update_cache", prompt |-> q, response |-> r]
    /\ UNCHANGED <<spans, trace_log, now, ended>>
    /\ UNCHANGED api_key
    /\ ProdFrame

\* secure_agent_executor(user_query, tracer) under @guardrail_pii, lines
\* 102-141 and 69-83. `gateway` is what became of the LLM call: "hit" (none
\* made), "mock" (no API key), "ok" or "raised". `ret` is what the caller
\* gets, "<raised>" when an exception leaves the call. The clock moves in
\* Tick only.
SecureAgentExecutor ==
    /\ Len(spans) < MaxSpans
    /\ Len(trace_log) < MaxRecords
    /\ \E q \in Prompts, text \in LLMTexts \cup {"<raises>"},
          io \in {"ok", "OSError"} :
        LET cached == check_cache(CACHE_STORE, q)
            gateway == IF Truthy(cached) THEN "hit"
                       ELSE IF ~api_key THEN "mock"
                       ELSE IF text = "<raises>" THEN "raised" ELSE "ok"
            response == CASE gateway = "hit" -> cached
                          [] gateway = "mock" -> MockResponse
                          [] gateway = "raised" -> "Error: " \o "Connection error."
                          [] gateway = "ok" -> text
            output == [source |-> IF gateway = "hit" THEN "cache" ELSE "llm",
                       response |-> response]
            started == Append(spans, start_span("secure_agent_execution", q))
            idx == ListIndex(Len(started), Len(started) - 1)
        IN  /\ spans' = [started EXCEPT ![idx] = end_span(@, now, output)]
            /\ CACHE_STORE' = IF gateway = "hit" THEN CACHE_STORE
                              ELSE update_cache(CACHE_STORE, q, response)
            /\ written' = IF gateway = "hit" THEN written
                          ELSE [written EXCEPT ![q] = response]
            /\ trace_log' = IF io = "ok" THEN Append(trace_log, spans'[idx]) ELSE trace_log
            /\ ended' = IF io = "ok" THEN ended + 1 ELSE ended
            /\ last_call' = [op |-> "secure_agent_executor", prompt |-> q,
                             gateway |-> gateway, response |-> response,
                             ret |-> IF io = "ok" THEN guardrail_pii(response)
                                     ELSE "<raised>"]
    /\ UNCHANGED now
    /\ UNCHANGED api_key
    /\ ProdFrame

\* Calls on one Tracer.
TracerNext == Tick \/ StartSpan \/ EndSpan

\* Calls of the cache functions and of secure_agent_executor.
ProdNext == CheckCache \/ UpdateCache \/ SecureAgentExecutor

(***************************************************************************)
(* pattern_orchestrator (agenticpatterns.py)                               *)
(***************************************************************************)

\* A decoded JSON value: its type and what iterating it yields (the items
\* of a list, the characters of a string). "absent" stands for no value.
JsonValues ==
    [type : {"absent", "null", "int"}, items : {<<>>}]
    \cup [type : {"str"}, items : {<<"H", "i">>}]
    \cup [type : {"list"}, items : {<<>>, <<"History">>, <<"History", "Health">>}]

NoValue == [type |-> "absent", items |-> <<>>]

\* Planner responses: text that is not JSON, JSON that is not an object, or
\* an object given by the value under "tasks" and by its first value (both
\* absent in the empty object; a non-zero number stands for the ints).
PlanResponses ==
    [json : {"invalid", "array"}, tasks : {NoValue}, first : {NoValue}]
    \cup {r \in [json : {"object"}, tasks : JsonValues, first : JsonValues] :
            r.first = NoValue => r.tasks = NoValue}

\* Line 152: the fixed two-task fallback.
Fallback ==
    [type |-> "list", items |-> <<"Write history of coffee", "Write health benefits of coffee">>]

\* `not v` is false: a non-empty list or string, a non-zero number.
NonEmpty(v) == v.type = "int" \/ (v.type \in {"str", "list"} /\ v.items # <<>>)

\* Lines 147-152: `tasks` after the try/except. json.loads raises on invalid
\* text, .get on a non-object, and list(...values())[0] on the empty object;
\* nothing in the try checks what kind of value was found.
PlanTasks(resp) ==
    LET got == IF resp.tasks = NoValue THEN [type |-> "list", items |-> <<>>]
               ELSE resp.tasks
    IN  IF resp.json # "object" THEN Fallback
        ELSE IF NonEmpty(got) THEN got
        ELSE IF resp.first = NoValue THEN Fallback
        ELSE resp.first

\* enumerate(tasks) raises TypeError on a number or None.
Iterable(v) == v.type \in {"str", "list"}

WorkerOutputs == {"Coffee began in Ethiopia.", "Coffee has antioxidants."}

\* "\n\n".join(results)
RECURSIVE Join(_)
Join(rs) ==
    IF rs = <<>> THEN ""
    ELSE IF Len(rs) = 1 THEN rs[1]
    ELSE rs[1] \o "\n\n" \o Join(Tail(rs))

OrcInit ==
    /\ orc_pc = "plan"
    /\ plan_response = [json |-> "none", tasks |-> NoValue, first |-> NoValue]
    /\ tasks = NoValue
    /\ orc_results = <<>>
    /\ final_doc = NoneStr

\* Lines 141-156: the planner call returns and `tasks` is set; line 158
\* raises when `tasks` cannot be iterated.
OrcPlan ==
    /\ orc_pc = "plan"
    /\ \E resp \in PlanResponses :
        /\ plan_response' = resp
        /\ tasks' = PlanTasks(resp)
        /\ orc_pc' = IF Iterable(PlanTasks(resp)) THEN "work" ELSE "TypeError"
    /\ UNCHANGED <<orc_results, final_doc>>
    /\ OrcFrame

\* Lines 158-162: one worker call for the next task.
OrcWorker ==
    /\ orc_pc = "work"
    /\ Len(orc_results) < Len(tasks.items)
    /\ \E out \in WorkerOutputs : orc_results' = Append(orc_results, out)
    /\ UNCHANGED <<orc_pc, plan_response, tasks, final_doc>>
    /\ OrcFrame

\* Lines 165-166: the final document.
OrcCompile ==
    /\ orc_pc = "work"
    /\ Len(orc_results) = Len(tasks.items)
    /\ final_doc' = Join(orc_results)
    /\ orc_pc' = "done"
    /\ UNCHANGED <<plan_response, tasks, orc_results>>
    /\ OrcFrame

\* The planner call or a worker call raises (call_llm does not catch).
OrcGatewayRaises ==
    /\ orc_pc = "plan" \/ (orc_pc = "work" /\ Len(orc_results) < Len(tasks.items))
    /\ orc_pc' = "GatewayError"
    /\ UNCHANGED <<plan_response, tasks, orc_results, final_doc>>
    /\ OrcFrame

OrcNext == OrcPlan \/ OrcWorker \/ OrcCompile \/ OrcGatewayRaises

(***************************************************************************)
(* The LangGraph workflows: langraph_statefulagent (planner, executor,     *)
(* reviewer) and the three workflows with a PII gate.  A node's return     *)
(* value is merged into the state with the reducer of each key, then the   *)
(* edge out of the node is followed.  A message is a record of its type,   *)
(* content, id (0 while it has none) and whether it carries tool calls.    *)
(***************************************************************************)

\* The most LLM calls of one run of the production agent's loop.
MaxModelCalls == 3

\* Before app.stream is called.
GraphInit ==
    /\ graph = "idle"
    /\ node = "idle"
    /\ gstate = [messages |-> <<>>]
    /\ visited = <<>>
    /\ llm_calls = <<>>
    /\ llm_out = "<none>"

\* langraph_statefulagent.router (the name router is taken by the routers).
RouterEndsAfterPlan(step) ==
    IF step = "executed" THEN "reviewer" ELSE "end"

Router(step) ==
    IF step = "plan_created" THEN "executor"
    ELSE IF step = "executed" THEN "reviewer"
    ELSE "end"

\* add_conditional_edges(n, router, path_map): the node the router's value
\* stands for in the path map of n; a value the map lacks is an error.
ConditionalEdges(n, state) ==
    LET path_map == {<<"planner", "executor", "executor">>, <<"planner", "end", "END">>,
                     <<"executor", "reviewer", "reviewer">>, <<"executor", "end", "END">>,
                     <<"reviewer", "end", "END">>}
        hits == {e \in path_map : e[1] = n /\ e[2] = Router(state.current_step)}
    IN IF hits = {} THEN "raised" ELSE (CHOOSE e \in hits : TRUE)[3]

\* app.stream(inputs): one or two human messages, and whatever current_step
\* the caller put into the inputs.
StreamStateful ==
    /\ graph = "idle"
    /\ \E n \in 1..2, step \in {"<unset>", "executed", "finished"} :
        \E texts \in [1..n -> {"Write a report on AI.", "finished", ""}] :
            gstate' = [messages |-> [i \in 1..n |->
                            [type |-> "human", content |-> texts[i], id |-> 0,
                             tool_calls |-> FALSE]],
                       current_step |-> step, plan |-> <<>>,
                       final_answer |-> "<unset>"]
    /\ graph' = "langraph_statefulagent"
    /\ node' = "planner"
    /\ UNCHANGED <<visited, llm_calls, llm_out>>
    /\ GraphFrame

\* planner_node: the LLM is asked for a plan and its response is dropped; a
\* failing call ends the run.
PlannerNode ==
    /\ graph = "langraph_statefulagent"
    /\ node = "planner"
    /\ llm_calls' = Append(llm_calls,
            <<[type |-> "human",
               content |-> "You are a planner. Generate a list of 3 steps to solve: "
                           \o gstate.messages[Len(gstate.messages)].content,
               id |-> 0, tool_calls |-> FALSE]>>)
    /\ \E plan_text \in {"1. Research 2. Draft 3. Review", "end", "", "<raised>"} :
        /\ llm_out' = plan_text
        /\ IF plan_text = "<raised>"
           THEN /\ node' = "raised"
                /\ UNCHANGED <<gstate, visited>>
           ELSE /\ gstate' = [gstate EXCEPT
                        !.plan = <<"Step 1: Research", "Step 2: Draft", "Step 3: Review">>,
                        !.current_step = "plan_created"]
                /\ visited' = Append(visited, "planner")
                /\ node' = ConditionalEdges("planner", gstate')
    /\ UNCHANGED graph
    /\ GraphFrame

\* executor_node; operator.add appends its message.
ExecutorNode ==
    /\ graph = "langraph_statefulagent"
    /\ node = "executor"
    /\ gstate' = [gstate EXCEPT
            !.messages = @ \o <<[type |-> "ai",
                content |-> "Executed " \o ToString(Len(gstate.plan)) \o " steps successfully.",
                id |-> 0, tool_calls |-> FALSE]>>,
            !.current_step = "executed"]
    /\ visited' = Append(visited, "executor")
    /\ node' = ConditionalEdges("executor", gstate')
    /\ UNCHANGED <<graph, llm_calls, llm_out>>
    /\ GraphFrame

\* reviewer_node.
ReviewerNode ==
    /\ graph = "langraph_statefulagent"
    /\ node = "reviewer"
    /\ gstate' = [gstate EXCEPT !.final_answer = "Task Completed and Verified.",
                                !.current_step = "finished"]
    /\ visited' = Append(visited, "reviewer")
    /\ node' = ConditionalEdges("reviewer", gstate')
    /\ UNCHANGED <<graph, llm_calls, llm_out>>
    /\ GraphFrame

StatefulNext == StreamStateful \/ PlannerNode \/ ExecutorNode \/ ReviewerNode

\* langgraph's add_messages reducer: a message whose id is in the list takes
\* that message's place, any other is appended, with a new id when it has
\* none (ids are handed out in order, so a new one is the new position).
RECURSIVE add_messages(_, _)
add_messages(left, right) ==
    IF right = <<>> THEN left
    ELSE LET m == Head(right)
             hits == {i \in 1..Len(left) : m.id # 0 /\ left[i].id = m.id}
         IN add_messages(
                IF hits # {}
                THEN [left EXCEPT ![CHOOSE i \in hits : TRUE] = m]
                ELSE Append(left, IF m.id = 0 THEN [m EXCEPT !.id = Len(left) + 1] ELSE m),
                Tail(right))

\* app.stream / graph.stream of a workflow with a PII gate, on one or two
\* human messages.
StreamGate ==
    /\ graph = "idle"
    /\ \E g \in {"autonomousclaims", "retailreturns", "langraph_production_Agent"},
          n \in 1..2 :
        \E texts \in [1..n -> {"Claim for max@email.com.", "Call 555-123-4567 now",
                               "Return order 999."}] :
            LET msgs == add_messages(<<>>, [i \in 1..n |->
                            [type |-> "human", content |-> texts[i], id |-> 0,
                             tool_calls |-> FALSE]])
            IN /\ graph' = g
               /\ node' = IF g = "langraph_production_Agent" THEN "agent" ELSE "pii_gate"
               /\ gstate' =
                    CASE g = "autonomousclaims" ->
                            [messages |-> msgs, damage_report |-> "<unset>",
                             coverage_status |-> "<unset>", fraud_score |-> "<unset>",
                             final_decision |-> "<unset>"]
                      [] g = "retailreturns" ->
                            [messages |-> msgs, item_condition |-> "<unset>",
                             final_action |-> "<unset>"]
                      [] g = "langraph_production_Agent" -> [messages |-> msgs]
    /\ UNCHANGED <<visited, llm_calls, llm_out>>
    /\ GraphFrame

\* autonomousclaims.pii_gate: a new HumanMessage with the cleaned content of
\* the last message.
PiiGate ==
    /\ graph = "autonomousclaims"
    /\ node = "pii_gate"
    /\ LET last_msg == gstate.messages[Len(gstate.messages)]
       IN gstate' = [gstate EXCEPT !.messages = add_messages(@,
                <<[type |-> "human", content |-> pii_guardrail(graph, last_msg.content),
                   id |-> 0, tool_calls |-> FALSE]>>)]
    /\ visited' = Append(visited, "pii_gate")
    /\ node' = "vision"
    /\ UNCHANGED <<graph, llm_calls, llm_out>>
    /\ GraphFrame

\* retailreturns.pii_gate_node: the last message is cleaned in place and
\* returned.
PiiGateNode ==
    /\ graph = "retailreturns"
    /\ node = "pii_gate"
    /\ LET n == Len(gstate.messages)
           last_msg == [gstate.messages[n] EXCEPT
                            !.content = pii_guardrail(graph, @)]
       IN gstate' = [gstate EXCEPT !.messages =
                        add_messages([@ EXCEPT ![n] = last_msg], <<last_msg>>)]
    /\ visited' = Append(visited, "pii_gate")
    /\ node' = "vision_agent"
    /\ UNCHANGED <<graph, llm_calls, llm_out>>
    /\ GraphFrame

\* vision_agent and vision_node: llm.invoke(state['messages']).
VisionAgent ==
    /\ graph \in {"autonomousclaims", "retailreturns"}
    /\ node \in {"vision", "vision_agent"}
    /\ llm_calls' = Append(llm_calls, gstate.messages)
    /\ \E response \in {"Dented fender.", ""} :
        /\ llm_out' = response
        /\ gstate' = IF graph = "autonomousclaims"
                     THEN [gstate EXCEPT !.damage_report = response]
                     ELSE [gstate EXCEPT !.item_condition = response]
    /\ visited' = Append(visited, node)
    /\ node' = IF graph = "autonomousclaims" THEN "policy" ELSE "orchestrator"
    /\ UNCHANGED graph
    /\ GraphFrame

\* policy_agent, then fraud_agent.
PolicyAndFraud ==
    /\ graph = "autonomousclaims"
    /\ node \in {"policy", "fraud"}
    /\ gstate' = IF node = "policy"
                 THEN [gstate EXCEPT !.coverage_status =
                        "Comprehensive Policy Active. $500 Deductible applies."]
                 ELSE [gstate EXCEPT !.fraud_score = "0.15"]
    /\ visited' = Append(visited, node)
    /\ node' = IF node = "policy" THEN "fraud" ELSE "orchestrator"
    /\ UNCHANGED <<graph, llm_calls, llm_out>>
    /\ GraphFrame

\* orchestrator and orchestrator_node: one prompt built from the state, the
\* response appended, then route_decision.
Orchestrator ==
    /\ graph \in {"autonomousclaims", "retailreturns"}
    /\ node = "orchestrator"
    /\ LET prompt ==
            IF graph = "autonomousclaims"
            THEN "Review claim: Damage: " \o gstate.damage_report
                 \o ", Policy: " \o gstate.coverage_status
                 \o ", Fraud: " \o gstate.fraud_score
                 \o ".\n    If risk < 0.2, call 'save_adjudication_report'. Otherwise, flag 'Human Review'."
            ELSE "\n    Review return request. \n    Evidence: " \o gstate.item_condition
                 \o "\n    Instruction: If item is damaged/defective, call 'write_return_manifest' to Approve.\n    Otherwise, flag for Human Review.\n    "
       IN llm_calls' = Append(llm_calls,
            <<[type |-> "human", content |-> prompt, id |-> 0, tool_calls |-> FALSE]>>)
    /\ \E calls \in BOOLEAN :
        LET response == [type |-> "ai", content |-> "", id |-> 0, tool_calls |-> calls]
            merged == add_messages(gstate.messages, <<response>>)
        IN /\ llm_out' = response.content
           /\ gstate' = IF graph = "autonomousclaims"
                        THEN [gstate EXCEPT !.messages = merged,
                                !.final_decision = IF calls THEN "Approve" ELSE "Human Review"]
                        ELSE [gstate EXCEPT !.messages = merged,
                                !.final_action = IF calls THEN "Instant Refund"
                                                 ELSE "Human Review Required"]
           /\ node' = IF merged[Len(merged)].tool_calls THEN "tools" ELSE "END"
    /\ visited' = Append(visited, "orchestrator")
    /\ UNCHANGED graph
    /\ GraphFrame

\* langraph_production_Agent.call_model, then should_continue.
CallModel ==
    /\ graph = "langraph_production_Agent"
    /\ node = "agent"
    /\ Len(llm_calls) < MaxModelCalls
    /\ LET n == Len(gstate.messages)
           safe == IF gstate.messages[n].type = "human"
                   THEN [gstate.messages EXCEPT ![n].content = pii_guardrail(graph, @)]
                   ELSE gstate.messages
       IN /\ llm_calls' = Append(llm_calls, safe)
          /\ \E calls \in BOOLEAN :
                LET response == [type |-> "ai", content |-> "", id |-> 0,
                                 tool_calls |-> calls]
                    merged == add_messages(safe, <<response>>)
                IN /\ llm_out' = response.content
                   /\ gstate' = [gstate EXCEPT !.messages = merged]
                   /\ node' = IF merged[Len(merged)].tool_calls THEN "tools" ELSE "END"
    /\ visited' = Append(visited, "agent")
    /\ UNCHANGED graph
    /\ GraphFrame

\* ToolNode(tools): the tool's result is appended; the production agent
\* goes back to its model, the other two workflows end.
ToolNode ==
    /\ graph \in {"autonomousclaims", "retailreturns", "langraph_production_Agent"}
    /\ node = "tools"
    /\ gstate' = [gstate EXCEPT !.messages = add_messages(@,
            <<[type |-> "tool",
               content |-> CASE graph = "autonomousclaims" ->
                                    "Report saved successfully for claim 1."
                             [] graph = "retailreturns" ->
                                    "Successfully recorded Approve for Order 999."
                             [] graph = "langraph_production_Agent" ->
                                    "Successfully wrote 5 bytes to status.txt.",
               id |-> 0, tool_calls |-> FALSE]>>)]
    /\ visited' = Append(visited, "tools")
    /\ node' = IF graph = "langraph_production_Agent" THEN "agent" ELSE "END"
    /\ UNCHANGED <<graph, llm_calls, llm_out>>
    /\ GraphFrame

GateNext ==
    \/ StreamGate
    \/ PiiGate
    \/ PiiGateNode
    \/ VisionAgent
    \/ PolicyAndFraud
    \/ Orchestrator
    \/ CallModel
    \/ ToolNode

(***************************************************************************)
(* Specifications: one per program; the other programs stay as constructed.*)
(***************************************************************************)

Init == EOInit /\ AgentInit /\ RouteInit /\ ScatterInit /\ GuardInit
    /\ ProdInit /\ OrcInit /\ GraphInit

\* pattern_evaluator_optimizer alone.
\* The programs added after the routers, fixed to one starting choice.
Idle == guard = "guardrail_pii" /\ g_text = "" /\ api_key

\* Every program as constructed, each fixed to one starting choice: the
\* start of pattern_evaluator_optimizer and of the programs that have no
\* starting choice of their own.
InitEO ==
    /\ Init /\ agent = "run_agent" /\ router = "route_query"
    /\ scatter = "run_consensus" /\ Idle

SpecEO == InitEO /\ [][EONext]_vars

\* run_agent or run_native_agent alone.
InitAgents == Init /\ router = "route_query" /\ scatter = "run_consensus" /\ Idle

SpecAgents == InitAgents /\ [][AgentNext]_vars

\* The same with a loop that keeps running: each step of the for loop is
\* taken once it can be.
SpecAgentsLive == SpecAgents /\ WF_vars(AgentNext)

\* route_query or pattern_routing alone.
InitRoute == Init /\ agent = "run_agent" /\ scatter = "run_consensus" /\ Idle

SpecRoute == InitRoute /\ [][RouteNext]_vars

\* pattern_parallelization or run_consensus alone.
InitScatter == Init /\ agent = "run_agent" /\ router = "route_query" /\ Idle

SpecScatter == InitScatter /\ [][ScatterNext]_vars

\* A redaction filter alone.
InitGuard ==
    /\ Init /\ agent = "run_agent" /\ router = "route_query"
    /\ scatter = "run_consensus" /\ api_key

SpecGuard == InitGuard /\ [][ApplyGuardrail]_vars

\* Production-Ready.py alone; the API key is set or not.
InitProd ==
    /\ Init /\ agent = "run_agent" /\ router = "route_query"
    /\ scatter = "run_consensus" /\ guard = "guardrail_pii" /\ g_text = ""

SpecTracer == InitEO /\ [][TracerNext]_vars

SpecProd == InitProd /\ [][ProdNext]_vars

\* pattern_orchestrator alone.
SpecOrc == InitEO /\ [][OrcNext]_vars

\* The planner/executor/reviewer graph alone, and the same with a runtime
\* that keeps stepping the graph.
SpecStateful == InitEO /\ [][StatefulNext]_vars

SpecStatefulLive == SpecStateful /\ WF_vars(StatefulNext)

\* The workflows with a PII gate alone.
SpecGate == InitEO /\ [][GateNext]_vars

(***************************************************************************)
(* Claims about pattern_evaluator_optimizer.                               *)
(***************************************************************************)

\* What the evaluator said, read off its response alone.
IsPass(resp) == resp.json = "object" /\ resp.status = "PASS"

IsFail(resp) == resp.json = "object" /\ resp.status = "FAIL"

Undecodable(resp) == resp.json # "object"

\* The feedback text of a response, as the generator would be shown it.
FeedbackText(resp) == IF resp.feedback = Absent THEN NoneStr ELSE resp.feedback

AllFail == \A i \in 1..Len(eval_log) : IsFail(eval_log[i].resp)

\* The loop ran to the ceiling and no response approved or was undecodable.
Exhausted ==
    /\ eo_pc = "done"
    /\ Len(eval_log) = MaxAttempts
    /\ \A i \in 1..Len(eval_log) :
        ~IsPass(eval_log[i].resp) /\ ~Undecodable(eval_log[i].resp)

\* C1: whatever the evaluator answers, at most 3 drafts are generated and at
\* most 3 evaluations made; when every verdict is FAIL the loop ends after
\* exactly 3 drafts and 3 evaluations, and once 3 attempts are used the loop
\* test can only leave the loop.
C1_DraftCeiling ==
    /\ Len(gen_contexts) <= 3
    /\ Len(eval_log) <= 3
    /\ attempt <= 3
    /\ (eo_pc = "done" /\ AllFail) =>
          (Len(gen_contexts) = 3 /\ Len(eval_log) = 3)
    /\ (eo_pc = "test" /\ Len(eval_log) = 3) => ~ENABLED (EOLoopTest /\ eo_pc' = "gen")

C1_Witness == eo_pc = "done" /\ AllFail /\ Len(gen_contexts) = 3

\* C2: if drafts 1..k-1 got FAIL and draft k got PASS, exactly k drafts are
\* ever generated and the status is APPROVED from then on (k <= 3).
C2_PassAtK ==
    \A k \in 1..Len(eval_log) :
        (IsPass(eval_log[k].resp) /\ \A j \in 1..(k - 1) : IsFail(eval_log[j].resp))
        => /\ k <= 3
           /\ Len(eval_log) = k
           /\ Len(gen_contexts) = k
           /\ status = "APPROVED"
           /\ eo_pc \in {"test", "done"}

C2_Witness ==
    /\ eo_pc = "done"
    /\ Len(eval_log) = 3
    /\ IsFail(eval_log[1].resp) /\ IsFail(eval_log[2].resp) /\ IsPass(eval_log[3].resp)
    /\ status = "APPROVED"

C4_DecodeFallback ==
    \A k \in 1..Len(eval_log) :
        Undecodable(eval_log[k].resp)
        => /\ Len(eval_log) = k
           /\ Len(gen_contexts) = k
           /\ status = "APPROVED"
           /\ feedback = "JSON Error"
           /\ eo_pc \in {"test", "done"}

C4_Witness ==
    /\ eo_pc = "done"
    /\ Len(eval_log) = 2
    /\ eval_log[2].resp.json = "array"
    /\ status = "APPROVED"

\* C5 as stated: the context of draft k holds the feedback of every earlier
\* FAIL verdict.
C5_ContextAccumulates ==
    \A k \in 2..Len(gen_contexts) : \A j \in 1..(k - 1) :
        IsFail(eval_log[j].resp)
        => Contains(gen_contexts[k], FeedbackText(eval_log[j].resp))

\* C5 amended: the context of draft 1 is the request; the context of draft k
\* (k >= 2) is rebuilt from the request, draft k-1 and the feedback of draft
\* k-1 alone, so it holds the most recent feedback and nothing of earlier
\* contexts.
C5_ContextIsLatestOnly ==
    \A k \in 1..Len(gen_contexts) :
        IF k = 1 THEN gen_contexts[k] = request
        ELSE /\ Contains(gen_contexts[k], "Critique: " \o FeedbackText(eval_log[k - 1].resp))
             /\ Contains(gen_contexts[k], "Previous Draft: " \o eval_log[k - 1].draft)
             /\ Len(gen_contexts[k]) =
                  Len("Original Request: \nPrevious Draft: \nCritique: \nFix it.")
                  + Len(request) + Len(eval_log[k - 1].draft)
                  + Len(FeedbackText(eval_log[k - 1].resp))

C5_Witness ==
    /\ Len(gen_contexts) = 3
    /\ IsFail(eval_log[1].resp) /\ IsFail(eval_log[2].resp)
    /\ eval_log[1].resp.feedback = "names are too clean"
    /\ eval_log[2].resp.feedback = "use worse names"
    /\ ~Contains(gen_contexts[3], "names are too clean")

(***************************************************************************)
(* Claims about the tool-calling agent loops.                              *)
(***************************************************************************)

\* The tool-role messages of the transcript that carry a tool call id.
ToolAnswers(id) ==
    {i \in 1..Len(messages) :
        messages[i].role = "tool" /\ messages[i].tool_call_id = id}

\* The assistant messages of the transcript that request a tool call id.
ToolRequests(id) ==
    {i \in 1..Len(messages) :
        /\ messages[i].role = "assistant"
        /\ \E k \in 1..Len(messages[i].tool_calls) : messages[i].tool_calls[k].id = id}

\* The native loop is about to send the transcript to the Gateway.
NativeAboutToSend == agent = "run_native_agent" /\ ag_pc = "call"

\* C6: whenever run_native_agent sends the transcript to the Gateway, every
\* tool call the Gateway emitted before has exactly one tool-role message
\* with its tool_call_id, placed after the one assistant message that
\* requested it.
C6_EveryCallAnsweredOnce ==
    NativeAboutToSend =>
        \A k \in 1..Len(emitted) :
            /\ Cardinality(ToolAnswers(emitted[k].id)) = 1
            /\ Cardinality(ToolRequests(emitted[k].id)) = 1
            /\ \A a \in ToolRequests(emitted[k].id), t \in ToolAnswers(emitted[k].id) : a < t

C6_Witness ==
    /\ NativeAboutToSend
    /\ sent = 2
    /\ Len(emitted) = 3
    /\ Cardinality(ToolAnswers(3)) = 1

\* The observation message run_agent appended for its k-th tool request.
ObservationOf(k) ==
    IF tool_runs[k].at + 1 <= Len(messages)
    THEN messages[tool_runs[k].at + 1]
    ELSE TextMessage("none", "")

IsErrorObservation(m) ==
    /\ m.role \in {"user", "tool"}
    /\ Contains(m.content, "Error")

\* C7: in both loops a request for an unregistered tool yields an error
\* observation in the transcript and the loop goes on; no exception leaves
\* the loop.
C7_UnknownToolRecovered ==
    /\ ag_error # "KeyError"
    /\ \A k \in 1..Len(tool_runs) :
        tool_runs[k].tool \notin RegisteredTools
        => /\ IsErrorObservation(ObservationOf(k))
           /\ ObservationOf(k).content =
                "Observation: Error: Tool '" \o tool_runs[k].tool \o "' not found."
    /\ NativeAboutToSend =>
        \A k \in 1..Len(emitted) :
            emitted[k].name \notin RegisteredTools
            => \E i \in ToolAnswers(emitted[k].id) : IsErrorObservation(messages[i])

\* The part of C7 that is about run_agent alone.
C7_ReActUnknownToolRecovered ==
    agent = "run_agent" =>
        /\ ag_error \in {"none", "GatewayError"}
        /\ \A k \in 1..Len(tool_runs) :
            tool_runs[k].tool \notin RegisteredTools
            => ObservationOf(k).content =
                 "Observation: Error: Tool '" \o tool_runs[k].tool \o "' not found."

\* C8: in both loops a failure of a registered tool, or of decoding its
\* arguments, becomes the observation in the transcript and the loop goes
\* on to the next turn.
C8_ToolFailureRecovered ==
    /\ ag_error \notin {"JSONDecodeError", "TypeError", ToolFailure}
    /\ \A k \in 1..Len(tool_runs) :
        tool_runs[k].outcome = "raise"
        => ObservationOf(k).content = "Observation: Error: " \o ToolFailure

\* The part of C8 that is about run_agent alone.
C8_ReActToolFailureRecovered ==
    agent = "run_agent" =>
        /\ ag_error \in {"none", "GatewayError"}
        /\ \A k \in 1..Len(tool_runs) :
            tool_runs[k].outcome = "raise"
            => /\ ObservationOf(k).content = "Observation: Error: " \o ToolFailure
               /\ (turn > tool_runs[k].turn)

(***************************************************************************)
(* Claims about routing.                                                   *)
(***************************************************************************)

Labels == {"BILLING", "TECHNICAL", "GENERAL"}

\* Two characters that are the same letter in either case, or the same
\* character.
SameLetter(c, d) ==
    \/ c = d
    \/ \E i \in 1..Len(LowerCase) :
        {c, d} = {Char(LowerCase, i), Char(UpperCase, i)}

\* The label occurs in the text, in any mix of letter cases.
HasLabel(text, label) ==
    \E i \in 1..(Len(text) - Len(label) + 1) :
        \A k \in 1..Len(label) : SameLetter(Char(text, i + k - 1), Char(label, k))

\* The labels each classifier response contains.
LabelsIn == [resp \in Responses |-> {l \in Labels : HasLabel(resp, l)}]

\* A query has been classified and dispatched; its handlers are the last
\* entry of rt_calls.
Dispatched == rt_calls # <<>>

LastCalls == rt_calls[Len(rt_calls)]

\* C9: a response containing BILLING and not TECHNICAL (in any letter case)
\* calls the billing handler, one containing TECHNICAL and not BILLING the
\* technical handler, one containing neither (GENERAL or no label at all)
\* the general handler; every query gets exactly one handler call, and
\* route_query returns that handler's value.
C9_RoutingDispatch ==
    /\ \A q \in 1..Len(rt_calls) : Len(rt_calls[q]) = 1
    /\ Dispatched =>
        LET L == LabelsIn[rt_raw] \cap {"BILLING", "TECHNICAL"}
            h == LastCalls[1]
        IN /\ (L = {"BILLING"}) => h = "BILLING"
           /\ (L = {"TECHNICAL"}) => h = "TECHNICAL"
           /\ (L = {}) => h = "GENERAL"
           /\ (router = "route_query") => rt_ret = HandlerReturn(h)

C9_Witness ==
    /\ Dispatched
    /\ rt_raw = " billing"
    /\ LastCalls = <<"BILLING">>
    /\ router = "pattern_routing"
    /\ rt_pc = "done"

\* C10: a response containing more than one label calls the handler of the
\* first of BILLING, TECHNICAL, GENERAL it contains, wherever the labels
\* stand in the text.
C10_RoutingPriority ==
    (Dispatched /\ Cardinality(LabelsIn[rt_raw]) > 1) =>
        LastCalls[1] = (IF "BILLING" \in LabelsIn[rt_raw] THEN "BILLING"
                        ELSE IF "TECHNICAL" \in LabelsIn[rt_raw] THEN "TECHNICAL"
                        ELSE "GENERAL")

C10_Witness ==
    /\ Dispatched
    /\ rt_raw = "TechnicalBILLING"
    /\ LastCalls = <<"BILLING">>
    /\ router = "route_query"

(***************************************************************************)
(* Claims about scatter-gather.                                            *)
(***************************************************************************)

\* The synthesis call has been issued.
SynthesisIssued == combined # NoneStr

\* C11: whatever order the three branches complete in, the text passed to
\* the synthesis call holds the first launched branch's result first and the
\* third last, each under its own label.
C11_LaunchOrder ==
    SynthesisIssued =>
        IF scatter = "pattern_parallelization"
        THEN combined = "Optimist: " \o branch[1].text \o "\nPessimist: "
                          \o branch[2].text \o "\nRealist: " \o branch[3].text
        ELSE combined = "Agent A: " \o branch[1].text \o "\nAgent B: "
                          \o branch[2].text \o "\nAgent C: " \o branch[3].text

\* The third branch finished first and the first last, with distinct texts.
C11_Witness ==
    /\ SynthesisIssued
    /\ scatter = "pattern_parallelization"
    /\ completed = <<3, 2, 1>>
    /\ branch[1].text # branch[3].text

\* C12: the synthesis call is issued only when all three branches have
\* completed with a result; a run in which a branch is pending or has failed
\* never issues it, and a run that gather raised out of has no combined text.
C12_Barrier ==
    /\ SynthesisIssued => \A i \in Branches : branch[i].state = "done"
    /\ SynthesisIssued => Len(completed) = 3
    /\ (\E i \in Branches : branch[i].state = "failed") => ~SynthesisIssued
    /\ (sg_pc = "gather") => ~SynthesisIssued

\* Two branches have their result and the third has failed: gather has
\* raised and no synthesis was made.
C12_Witness ==
    /\ sg_pc = "raised"
    /\ branch[1].state = "done" /\ branch[2].state = "done"
    /\ branch[3].state = "failed"
    /\ ~SynthesisIssued

(***************************************************************************)
(* Claims about the redaction filters.                                     *)
(***************************************************************************)

AllDetectors == {"email", "strict_email", "phone", "card"}

\* No detector finds a match in a sentinel token.
NoSentinelMatches == \A d \in AllDetectors, e \in AllDetectors : ~Search(d, Sentinel(e))

\* C13: applying a redaction filter (each pii_guardrail version and the
\* email redaction of guardrail_pii) to its own output returns that output
\* unchanged, and no sentinel token matches a detection pattern.
C13_Idempotent ==
    /\ g_n >= 2 => g_out = g_first
    /\ NoSentinelMatches

\* The first application redacted something and the second changed nothing.
C13_Witness ==
    /\ g_n = 2
    /\ guard = "retailreturns"
    /\ g_first # g_text
    /\ g_out = g_first

\* C14 as stated: every filter applies the email, phone and payment-card
\* detectors, so no match of any of the three is left in its output and the
\* example text loses both its email and its phone number.
C14_AllDetectorsEverywhere ==
    g_n >= 1 =>
        /\ \A d \in {"email", "phone", "card"} : ~Search(d, g_first)
        /\ g_text = Example => g_first = "Contact [REDACTED_EMAIL] or [REDACTED_PHONE]"

\* C14, amended: each filter applies its own detectors in a fixed order
\* (email then phone in autonomousclaims.py and langraph_production_Agent.py,
\* email then payment card in retailreturns.py, email alone in guardrail_pii)
\* and leaves no match of those in its output; the example text loses its
\* email everywhere and its phone number only where a phone detector runs.
C14_OwnDetectorsInOrder ==
    g_n >= 1 =>
        /\ \A k \in 1..Len(Detectors(guard)) : ~Search(Detectors(guard)[k], g_first)
        /\ g_text = Example =>
            g_first = IF guard \in {"autonomousclaims", "langraph_production_Agent"}
                      THEN "Contact [REDACTED_EMAIL] or [REDACTED_PHONE]"
                      ELSE "Contact [REDACTED_EMAIL] or 555-123-4567"
        /\ g_text = "555-123-4567@b.com" => g_first = "[REDACTED_EMAIL]"

\* The retail filter has redacted the example and the phone number is there.
C14_Witness ==
    /\ g_n >= 1
    /\ guard = "retailreturns"
    /\ g_text = Example
    /\ Search("phone", g_first)

(***************************************************************************)
(* Claims about Production-Ready.py.                                       *)
(***************************************************************************)

\* C15: the number of records in the trace log equals the number of
\* end_span calls that completed, every logged record has status COMPLETED
\* and its end_time is not earlier than its start_time.
C15_RecordCount ==
    /\ Len(trace_log) = ended
    /\ \A k \in 1..Len(trace_log) :
        /\ trace_log[k].status = "COMPLETED"
        /\ trace_log[k].end_time >= trace_log[k].start_time

\* Two end_span calls completed, one failed in the file write, and a logged
\* span ended later than it started.
C15_Witness ==
    /\ ended = 2
    /\ \E k \in 1..Len(trace_log) : trace_log[k].end_time > trace_log[k].start_time
    /\ \E pos \in 1..Len(spans) :
        spans[pos].status = "COMPLETED" /\ \A k \in 1..Len(trace_log) : trace_log[k] # spans[pos]

SealedSpans == {pos \in 1..Len(spans) : spans[pos].status = "COMPLETED"}

\* C16: a span is ended at most once: a COMPLETED span never changes again
\* (its end_time and output stay), and the log never holds more records than
\* there are COMPLETED spans.
C16_SingleSeal ==
    /\ [][\A pos \in SealedSpans : spans'[pos] = spans[pos]]_vars
    /\ [](Len(trace_log) <= Cardinality(SealedSpans))

\* C17: end_span with a handle start_span never returned (negative, or past
\* the last span) fails, modifies no span and appends nothing to the log.
C17_UnknownHandleRejected ==
    [][(last_call'.op = "end_span" /\ last_call'.handle \notin 0..(Len(spans) - 1))
        => (last_call'.raised /\ spans' = spans /\ trace_log' = trace_log)]_vars

\* C18: check_cache(p) returns the response of the most recent update of
\* exactly that prompt and nothing for a prompt never updated; an update of
\* one key leaves every other key's value, and no entry is evicted.
C18_CacheLookup ==
    /\ \A q \in Prompts :
        check_cache(CACHE_STORE, q) = IF written[q] = "<never>" THEN NoneStr ELSE written[q]
    /\ last_call.op = "check_cache" =>
        last_call.ret = IF written[last_call.prompt] = "<never>" THEN NoneStr
                        ELSE written[last_call.prompt]

\* One prompt holds a response, the prompt that differs by case only was
\* updated later with another, and check_cache returned the first.
C18_Witness ==
    /\ written["Reset password"] = ""
    /\ last_call.op = "check_cache"
    /\ last_call.prompt = "reset password"
    /\ last_call.ret = "Mail admin@company.com"

\* C19: a failure of the LLM call surfaces to the caller as an error and is
\* not returned as a response value nor stored in the cache.
C19_FailureSurfaces ==
    (last_call.op = "secure_agent_executor" /\ last_call.gateway = "raised") =>
        /\ last_call.ret = "<raised>"
        /\ check_cache(CACHE_STORE, last_call.prompt) # last_call.response

(***************************************************************************)
(* Claims about pattern_orchestrator.                                      *)
(***************************************************************************)

\* C20: for every planner response the pattern does not abort: `tasks` is
\* the decoded list of sub-tasks or the fixed two-task fallback, the workers
\* run and the final document is compiled.
C20_PlannerDegradation ==
    /\ orc_pc # "TypeError"
    /\ orc_pc \in {"work", "done"} =>
        \/ tasks = Fallback
        \/ tasks.type = "list" /\ tasks \in {plan_response.tasks, plan_response.first}

(***************************************************************************)
(* Claims about secure_agent_executor.                                     *)
(***************************************************************************)

\* A call of secure_agent_executor has returned a value.
Returned == last_call.op = "secure_agent_executor" /\ last_call.ret # "<raised>"

\* C21: the output stored in a span record by secure_agent_executor is the
\* output after the guardrail filter: no trace record holds an email address.
C21_TraceHoldsGuardedOutput ==
    \A k \in 1..Len(trace_log) :
        /\ ~Search("strict_email", trace_log[k].output.response)
        /\ trace_log[k].output.response = guardrail_pii(trace_log[k].output.response)

\* C23: the value secure_agent_executor returns holds no email match and is
\* the redaction of the underlying call's result, on the LLM path, the mock
\* path and the cache-hit path.
C23_GuardedOutput ==
    Returned =>
        /\ ~Search("strict_email", last_call.ret)
        /\ last_call.gateway = "mock" =>
            last_call.ret = "Sure, I can help. Contact support at [REDACTED_EMAIL] for details."
        /\ last_call.response = "Mail admin@company.com" =>
            last_call.ret = "Mail [REDACTED_EMAIL]"
        /\ ~Search("strict_email", last_call.response) => last_call.ret = last_call.response

\* A cache hit whose cached response holds an email address has returned.
C23_Witness ==
    /\ Returned
    /\ last_call.gateway = "hit"
    /\ last_call.response = "Mail admin@company.com"
    /\ last_call.ret = "Mail [REDACTED_EMAIL]"

\* C26: a call of secure_agent_executor that directly follows a completed
\* call with the same query makes no Gateway call, leaves the cache as it is
\* and returns what the first call returned (unless its own log write fails).
C26_SecondCallHits ==
    [][(/\ Returned
        /\ last_call'.op = "secure_agent_executor"
        /\ Len(spans') > Len(spans)
        /\ last_call'.prompt = last_call.prompt)
        => (/\ last_call'.gateway = "hit"
            /\ CACHE_STORE' = CACHE_STORE
            /\ last_call'.ret \in {last_call.ret, "<raised>"})]_vars

\* C27: every call of secure_agent_executor appends exactly one span, for
\* its query, touches no other span, and when it returns that span is
\* COMPLETED and is the one record the call appended to the log; no span is
\* left RUNNING.
C27_SpanPairing ==
    /\ [][(last_call'.op = "secure_agent_executor" /\ spans' # spans)
            => (/\ Len(spans') = Len(spans) + 1
                /\ SubSeq(spans', 1, Len(spans)) = spans
                /\ spans'[Len(spans')].input = last_call'.prompt
                /\ last_call'.ret # "<raised>" =>
                    /\ spans'[Len(spans')].status = "COMPLETED"
                    /\ trace_log' = Append(trace_log, spans'[Len(spans')]))]_vars
    /\ [](\A pos \in 1..Len(spans) : spans[pos].status # "RUNNING")

\* Two calls have returned, the second on the cache-hit path, and both spans
\* are COMPLETED and logged.
C27_Witness ==
    /\ Returned
    /\ last_call.gateway = "hit"
    /\ Len(spans) = 2 /\ Len(trace_log) = 2
    /\ spans[2].status = "COMPLETED"

(***************************************************************************)
(* Claims about the agent loops, continued.                                *)
(***************************************************************************)

\* C24: run_agent and run_native_agent issue at most 5 Gateway calls per
\* query, and every run ends (it returns, runs out of turns or raises),
\* whatever the model answers.
C24_LoopBound ==
    /\ [](sent <= MaxTurns /\ turn <= MaxTurns)
    /\ <>[](ag_pc # "call")

\* Five Gateway calls were made, none answered with an action or a final
\* answer, and run_agent has run out of turns.
C24_Witness ==
    /\ agent = "run_agent"
    /\ sent = MaxTurns
    /\ ag_pc = "exhausted"
    /\ tool_runs = <<>>

\* C28: in run_agent a response holding "Final Answer:" is returned at once
\* and runs no tool, also when it holds an action line; a tool runs only for
\* a response with an action and no final answer, and its observation is
\* the message directly after that response.
C28_FinalAnswerFirst ==
    agent = "run_agent" =>
        /\ \A k \in 1..Len(tool_runs) :
            LET at == tool_runs[k].at IN
            /\ messages[at].role = "assistant"
            /\ ~Contains(messages[at].content, "Final Answer:")
            /\ Contains(messages[at].content, "Action: " \o tool_runs[k].tool \o "[")
            /\ at < Len(messages)
            /\ messages[at + 1].role = "user"
            /\ SubSeq(messages[at + 1].content, 1, Len("Observation: ")) = "Observation: "
        /\ \A i \in 1..Len(messages) :
            (messages[i].role = "assistant" /\ Contains(messages[i].content, "Final Answer:"))
                => /\ i = Len(messages)
                   /\ ag_pc = "returned"
                   /\ ag_ret = messages[i].content
                   /\ \A k \in 1..Len(tool_runs) : tool_runs[k].at # i

\* After a turn that ran a tool, a response with both an action line and a
\* final answer was returned.
C28_Witness ==
    /\ agent = "run_agent"
    /\ ag_pc = "returned"
    /\ ag_ret = "Action: get_news[NVDA]\nFinal Answer: hold"
    /\ Len(tool_runs) = 1

(***************************************************************************)
(* Claims about the LangGraph workflows.                                   *)
(***************************************************************************)

\* C22: in the workflows with a PII gate, no message of any list handed to
\* the LLM holds an email or a phone number.
C22_GateBeforeModel ==
    graph \in {"autonomousclaims", "retailreturns", "langraph_production_Agent"} =>
        \A k \in 1..Len(llm_calls) : \A i \in 1..Len(llm_calls[k]) :
            /\ ~Search("email", llm_calls[k][i].content)
            /\ ~Search("phone", llm_calls[k][i].content)

\* C25: whatever the LLM answers the planner, the graph runs planner,
\* executor and reviewer once each in that order and then ends; END is not
\* reached before the reviewer has run.
C25_LinearPath ==
    /\ [](graph = "langraph_statefulagent" =>
            /\ \E n \in 0..3 : visited = SubSeq(<<"planner", "executor", "reviewer">>, 1, n)
            /\ node = "raised" => (visited = <<>> /\ llm_out = "<raised>")
            /\ node = "END" => visited = <<"planner", "executor", "reviewer">>
            /\ node \notin {"raised", "END"} =>
                    node = <<"planner", "executor", "reviewer">>[Len(visited) + 1])
    /\ <>[](node = "END" \/ llm_out = "<raised>")

\* The LLM gave the planner an empty response, the inputs already said
\* "finished", and the run has ended after the three nodes.
C25_Witness ==
    /\ graph = "langraph_statefulagent"
    /\ node = "END"
    /\ llm_out = ""
    /\ visited = <<"planner", "executor", "reviewer">>
    /\ gstate.messages[1].content = "finished"

====
